---- MODULE Spec2Model ----
(***************************************************************************)
(* A model of the authentication subsystem of ArtisanAI:                   *)
(*   backend/src/routes/auth.ts   signup, login, /me, /profile, /logout    *)
(*   (two variants of the route file live in the repository; `variant`     *)
(*   says which one is mounted)                                            *)
(* The User model (models/User) and the session middleware                 *)
(* (middleware/auth) are not part of the sources at hand: the credential   *)
(* store, the password hasher and the token verifier are modelled from     *)
(* the specification (sections 4.1 - 4.4).                                 *)
(***************************************************************************)
EXTENDS Integers, Sequences, FiniteSets, TLC

(* ------------------------------ bounds --------------------------------- *)

\* Requests the clients send in one run (any number of them in flight).
MaxReqs == 2
\* Accounts the store can hold.
MaxUsers == 2
\* The clock runs from 0 to MaxTime.
MaxTime == 1

(* ----------------------------- input sets ------------------------------ *)

Variants == {1, 2}

\* "A@x.com" and "a@x.com" normalize to the same address; "bad" is no email.
RawEmails == {"A@x.com", "a@x.com", "b@x.com", "bad"}
\* "" is empty, "abc" is shorter than 6, the others are acceptable.
Passwords == {"", "abc", "secret1", "hunter22"}
LoginPasswords == {"", "secret1", "hunter22"}
FirstNames == {"Ann"}
LastNames == {"Lee"}
Secrets == {"k1"}
\* The salt the hasher draws for the n-th account it hashes a password for.
SaltSeq == <<"s1", "s2", "s3", "s4">>
Salts == {SaltSeq[i] : i \in DOMAIN SaltSeq}

\* The value of an optional field that was never set.
Undef == "~undefined~"

BusinessTypes == {"Textiles", "Handicrafts", "Jewelry", "Pottery", "Woodwork", "Metalwork", "Other"}

(* --------------------- express-validator, validator.js ----------------- *)

\* String.prototype.trim on the strings the model sends.
Trim(s) == CASE s = " " -> ""
             [] s = " Zed " -> "Zed"
             [] OTHER -> s

\* validator.isEmail on the addresses the model sends.
IsEmail(s) == s \in {"A@x.com", "a@x.com", "b@x.com"}

\* validator.normalizeEmail: lower-cases the address (all_lowercase).
NormalizeEmail(s) == CASE s = "A@x.com" -> "a@x.com"
                       [] OTHER -> s

\* /^[+]?[\d\s\-\(\)]{10,15}$/ on the phone numbers the model sends.
PhoneMatches(s) == s \in {"5551234567", "+91 98765-43210"}

Has(body, f) == f \in DOMAIN body

\* One entry of errors.array(): the field, the offending value and the message.
Err(path, value, msg) == [path |-> path, value |-> value, msg |-> msg]

\* The chain .trim().isLength({min, max}) of a name field.
NameErrors(body, f, msg) ==
  IF Len(Trim(body[f])) >= 1 /\ Len(Trim(body[f])) <= 50
  THEN {} ELSE {Err(f, Trim(body[f]), msg)}

\* The chains of the optional business fields (first variant only).
BusinessErrors(body) ==
  (IF Has(body, "businessName") /\ Len(Trim(body.businessName)) > 100
   THEN {Err("businessName", Trim(body.businessName), "Business name must be less than 100 characters")}
   ELSE {})
  \cup
  (IF Has(body, "businessType") /\ body.businessType \notin BusinessTypes
   THEN {Err("businessType", body.businessType, "Invalid business type")}
   ELSE {})
  \cup
  (IF Has(body, "phone") /\ ~PhoneMatches(body.phone)
   THEN {Err("phone", body.phone, "Please provide a valid phone number")}
   ELSE {})
  \cup
  (IF Has(body, "location") /\ Len(Trim(body.location)) > 100
   THEN {Err("location", Trim(body.location), "Location must be less than 100 characters")}
   ELSE {})

\* signupValidation: email, password, names; the business fields in variant 1.
SignupErrors(v, body) ==
  (IF IsEmail(body.email) THEN {}
   ELSE {Err("email", body.email, "Please provide a valid email")})
  \cup
  (IF Len(body.password) >= 6 THEN {}
   ELSE {Err("password", body.password, "Password must be at least 6 characters long")})
  \cup NameErrors(body, "firstName", "First name is required and must be less than 50 characters")
  \cup NameErrors(body, "lastName", "Last name is required and must be less than 50 characters")
  \cup (IF v = 1 THEN BusinessErrors(body) ELSE {})

(* --------------------------- password hasher --------------------------- *)

\* The digest of a plaintext under a salt (the salt is part of the digest).
Hash(p, salt) == "$2a$" \o salt \o "$" \o p

\* user.comparePassword: re-hashes the candidate under the digest's salt.
ComparePassword(p, digest) == \E salt \in Salts : digest = Hash(p, salt)

(* --------------------------- credential store -------------------------- *)

\* ObjectId.toString() of the identifiers the store generates.
HexIds == <<"64a1", "64a2", "64a3", "64a4">>
IdToString(id) == HexIds[id]
\* The cast of a string back to an identifier (0: no such identifier).
CastId(s) == IF \E i \in DOMAIN HexIds : HexIds[i] = s
             THEN CHOOSE i \in DOMAIN HexIds : HexIds[i] = s
             ELSE 0

NoUser == [id |-> 0]

MutableFields == {"firstName", "lastName", "businessName", "businessType", "phone", "location"}
ProtectedFields == {"_id", "email", "password", "createdAt"}

FindByEmail(us, email) == {u \in us : u.email = email}
FindById(us, id) == {u \in us : u.id = id}

\* What findById and findByIdAndUpdate return: the account without its
\* password hash.
WithoutPassword(u) == [f \in DOMAIN u \ {"password"} |-> u[f]]

\* A store without the unique index on email: no insert is refused.
DuplicateKeyNoIndex(us, email) == FALSE

\* The unique index on email: an insert of a second account with the same
\* email fails with the duplicate-key error (code 11000).
DuplicateKey(us, email) == FindByEmail(us, email) # {}

\* user.save() of a new document: the identifier is fresh, the password is
\* stored hashed, isEmailVerified defaults to false, createdAt is the clock.
StoreSave(doc, id, salt, t) ==
  [id |-> id,
   email |-> doc.email,
   password |-> Hash(doc.password, salt),
   firstName |-> doc.firstName,
   lastName |-> doc.lastName,
   businessName |-> doc.businessName,
   businessType |-> doc.businessType,
   phone |-> doc.phone,
   location |-> doc.location,
   isEmailVerified |-> FALSE,
   createdAt |-> t]

\* A store that applies every field of an update.
AllowedUpdateAll(update) == DOMAIN update

\* The fields of an update the store applies: identifier, email, password
\* hash and creation timestamp are not among them.
AllowedUpdate(update) == DOMAIN update \cap MutableFields

\* updateById: the allowed fields of the update replace the account's.
StoreUpdate(u, update) ==
  [f \in DOMAIN u |-> IF f \in AllowedUpdate(update) THEN update[f] ELSE u[f]]

(* ------------------------------- tokens -------------------------------- *)

\* The lifetime of a token in clock ticks (JWT_EXPIRES_IN, '7d' by default).
JWT_EXPIRES_IN == 1

NoToken == [kind |-> "none"]
Garbage == [kind |-> "garbage"]

\* jwt.sign(payload, secret, options): the claims and the signature.
JwtSign(payload, secret, expiresIn, iss, aud, t) ==
  [kind |-> "jwt",
   userId |-> payload.userId,
   email |-> payload.email,
   iss |-> iss,
   aud |-> aud,
   iat |-> t,
   exp |-> t + expiresIn,
   sig |-> secret]

\* generateToken with expiresIn: 0.
generateTokenNoLifetime(userId, email, secret, t) ==
  JwtSign([userId |-> userId, email |-> email], secret,
          0, "artisan-ai", "artisan-ai-users", t)

\* generateToken(userId, email), with the secret getJWTSecret() returns now.
generateToken(userId, email, secret, t) ==
  JwtSign([userId |-> userId, email |-> email], secret,
          JWT_EXPIRES_IN, "artisan-ai", "artisan-ai-users", t)

\* getJWTSecret(): process.env.JWT_SECRET, or the built-in default when unset.
getJWTSecret(envValue) == IF envValue = "" THEN "your-secret-key" ELSE envValue

\* A verifier that does not look at the expiry.
VerifyIgnoringExpiry(tok, secret, t) ==
  IF tok.kind # "jwt" THEN [kind |-> "TokenMalformed"]
  ELSE IF tok.sig # secret THEN [kind |-> "TokenInvalid"]
  ELSE IF tok.aud # "artisan-ai-users" \/ tok.iss # "artisan-ai" THEN [kind |-> "TokenInvalid"]
  ELSE [kind |-> "Valid", accountId |-> tok.userId, email |-> tok.email]

\* verify(tokenString) against a secret at time t: the decoded claims, or the
\* kind of the failure. The signature is checked first, then the expiry,
\* then the audience and issuer tags.
Verify(tok, secret, t) ==
  IF tok.kind # "jwt" THEN [kind |-> "TokenMalformed"]
  ELSE IF tok.sig # secret THEN [kind |-> "TokenInvalid"]
  ELSE IF t >= tok.exp THEN [kind |-> "TokenExpired"]
  ELSE IF tok.aud # "artisan-ai-users" \/ tok.iss # "artisan-ai" THEN [kind |-> "TokenInvalid"]
  ELSE [kind |-> "Valid", accountId |-> tok.userId, email |-> tok.email]

(* ------------------------- documents of the routes -------------------- *)

Opt(body, f) == IF Has(body, f) THEN body[f] ELSE Undef
OptTrim(body, f) == IF Has(body, f) THEN Trim(body[f]) ELSE Undef

\* new User({...}) from the sanitized request body; the second variant reads
\* the four required fields only.
SignupDoc(v, body) ==
  [email |-> NormalizeEmail(body.email),
   password |-> body.password,
   firstName |-> Trim(body.firstName),
   lastName |-> Trim(body.lastName),
   businessName |-> IF v = 1 THEN OptTrim(body, "businessName") ELSE Undef,
   businessType |-> IF v = 1 THEN Opt(body, "businessType") ELSE Undef,
   phone |-> IF v = 1 THEN Opt(body, "phone") ELSE Undef,
   location |-> IF v = 1 THEN OptTrim(body, "location") ELSE Undef]

(* ------------------------------ responses ------------------------------ *)

NoResp == [status |-> 0, message |-> "", code |-> "", user |-> NoUser, token |-> NoToken, errors |-> {}]

Fail(status, message) == [NoResp EXCEPT !.status = status, !.message = message]

ValidationFailed(errors) == [NoResp EXCEPT !.status = 400, !.message = "Validation failed", !.errors = errors]

\* The session middleware's rejection: a uniform message, the kind kept as
\* an internal code.
Unauthorized(code) == [NoResp EXCEPT !.status = 401, !.message = "Not authorized", !.code = code]

\* A response that carries the document as it is.
ProjectionWholeDocument(v, u) == u

\* The `user` object of a response body, built field by field from a document.
Projection(v, u) ==
  IF v = 1
  THEN [id |-> u.id, email |-> u.email, firstName |-> u.firstName, lastName |-> u.lastName,
        businessName |-> u.businessName, businessType |-> u.businessType,
        phone |-> u.phone, location |-> u.location,
        isEmailVerified |-> u.isEmailVerified, createdAt |-> u.createdAt]
  ELSE [id |-> u.id, email |-> u.email, firstName |-> u.firstName, lastName |-> u.lastName,
        isEmailVerified |-> u.isEmailVerified, createdAt |-> u.createdAt]

Ok(status, message, user, token) ==
  [NoResp EXCEPT !.status = status, !.message = message, !.user = user, !.token = token]

(* ------------------------------- state --------------------------------- *)

VARIABLES
  variant,      \* which variant of routes/auth.ts is mounted
  users,        \* the accounts of the credential store
  env,          \* process.env.JWT_SECRET ("" when unset)
  now,          \* the clock
  nreq,         \* the number of requests sent so far
  reqs,         \* the requests: input, position of the handler, response
  tk,           \* the token issuer and verifier on their own (SpecToken)
  store,        \* whether the database answers ("up") or throws ("down")
  client,       \* the browser: AuthContext state, axios header, localStorage
  boot          \* the start of the process: environment, .env file, imports

server == <<variant, users, env, now, nreq, reqs>>
vars == <<variant, users, env, now, nreq, reqs, tk, store, client, boot>>
\* What the route handlers never touch.
others == <<tk, store, client, boot>>

ReqIds == 1..MaxReqs

Idle == [kind |-> "idle", pc |-> "idle", body |-> <<>>, token |-> NoToken,
         doc |-> NoUser, resp |-> NoResp]

TkIdle == [pc |-> "start", args |-> [accountId |-> "", email |-> ""], tok |-> NoToken,
           secret |-> "", t |-> 0, fresh |-> FALSE, verdict |-> [kind |-> ""]]

\* The browser before the page is loaded; the process before it is started.
ClientOff == [loaded |-> FALSE,
              state |-> [user |-> "", token |-> "", isAuthenticated |-> FALSE, isLoading |-> TRUE],
              header |-> "", storage |-> "", calls |-> {}, last |-> "", error |-> "",
              answer |-> [kind |-> "", ok |-> FALSE,
                          error |-> [code |-> "", message |-> "", status |-> 0, body |-> ""]]]
\* The server process before it is launched.
BootOff == [pc |-> "off", procEnv |-> "", file |-> "", env |-> "", expiresIn |-> "",
            tok |-> [kind |-> "none"],
            procNodeEnv |-> "", fileNodeEnv |-> "", nodeEnv |-> "", debugUsers |-> FALSE,
            db |-> "down", attempts |-> 0, pending |-> 0, timer |-> 0,
            connected |-> FALSE, resolved |-> FALSE]

\* The account a signup of SeedBody at time 0 leaves in the store.
SeedBody == [email |-> "a@x.com", password |-> "secret1", firstName |-> "Ann", lastName |-> "Lee"]

\* The store is empty, or holds an account an earlier run of the process
\* registered.
Init ==
  /\ variant \in Variants
  /\ users \in {{}, {StoreSave(SignupDoc(variant, SeedBody), 1, "s1", 0)}}
  /\ env \in {""} \cup Secrets
  /\ now = 0
  /\ nreq = 0
  /\ reqs = [r \in ReqIds |-> Idle]
  /\ tk = TkIdle
  /\ store = "up"
  /\ client = ClientOff
  /\ boot = BootOff

\* A request arrives: it takes the next free slot.
Arrive(r) ==
  /\ r = nreq + 1
  /\ nreq' = r
  /\ reqs[r].pc = "idle"

\* Request r as it arrived.
Arrived(kind, body, token) == [Idle EXCEPT !.kind = kind, !.body = body, !.token = token]

\* res.json(...) of a request in flight.
Done(r, resp) == reqs' = [reqs EXCEPT ![r].pc = "done", ![r].resp = resp]

\* res.json(...) of a request in its first step.
DoneAtOnce(r, kind, body, token, resp) ==
  reqs' = [reqs EXCEPT ![r] = [Arrived(kind, body, token) EXCEPT !.pc = "done", !.resp = resp]]

(* ------------------------------- inputs -------------------------------- *)

\* Signup bodies: each address with an acceptable password, one body with a
\* short password, and one with an optional field outside the enumeration.
SignupBodies ==
  {[email |-> e, password |-> "secret1", firstName |-> f, lastName |-> l] :
     e \in RawEmails, f \in FirstNames, l \in LastNames}
  \cup {[email |-> "a@x.com", password |-> "abc", firstName |-> "Ann", lastName |-> "Lee"],
         [email |-> "b@x.com", password |-> "secret1", firstName |-> "Ann", lastName |-> "Lee",
          businessType |-> "Plumbing"]}

LoginEmails == {"A@x.com", "b@x.com", "bad"}
\* Login bodies: each address with the seeded password, and the seeded
\* address with an empty and with a wrong password.
LoginBodies ==
  {[email |-> e, password |-> "secret1"] : e \in LoginEmails}
  \cup {[email |-> "A@x.com", password |-> p] : p \in LoginPasswords}

\* Profile payloads: mutable fields with valid and invalid values, and
\* fields the update must not touch.
ProfileBodies ==
  {<<>>,
   [firstName |-> " Zed "],
   [firstName |-> " "],
   [lastName |-> "Zed", businessType |-> "Pottery"],
   [businessType |-> "Plumbing"],
   [businessName |-> "Clay Co", phone |-> "12345"],
   [email |-> "a@x.com"],
   [password |-> "hacked99", lastName |-> "Zed"],
   [_id |-> "64a2", createdAt |-> 99, location |-> "Jaipur"]}

\* A token signed by someone who does not hold the server's secret.
Forged == JwtSign([userId |-> IdToString(1), email |-> "a@x.com"], "evil",
                  JWT_EXPIRES_IN, "artisan-ai", "artisan-ai-users", 0)

\* What a client can put into the Authorization header: nothing, junk, a
\* forged token, a token some response carried, or the token the issuer
\* handed out before the run began.
Presentable ==
  {NoToken, Garbage, Forged, tk.tok}
  \cup {reqs[r].resp.token : r \in {q \in ReqIds : reqs[q].resp.token.kind = "jwt"}}

(* ------------------------------- signup -------------------------------- *)

DuplicateMessage(v) == IF v = 1 THEN "User with this email already exists"
                       ELSE "User already registered. Please login instead."

DuplicateEmailAs400(v) == Fail(400, DuplicateMessage(v))

\* The answer to a signup whose address the lookup found.
DuplicateEmail(v) == Fail(409, DuplicateMessage(v))

SignupSaveFailedAs201 ==
  [NoResp EXCEPT !.status = 201, !.message = "User registered successfully and saved to database"]

\* What the catch block of the signup route answers to a failed save.
SignupSaveFailed == Fail(500, "Server error during registration")

\* The message of the error a store call throws while the store is down.
StoreErrorDetail == "MongoNetworkError: connection closed"

\* A catch block that hands the error's message to the client.
CaughtLeaking(kind, error) == Fail(500, error)

\* The catch block of a route: the error is logged and the answer is 500
\* with the route's fixed message.
Caught(kind, error) ==
  CASE kind = "signup" -> SignupSaveFailed
    [] kind = "login" -> Fail(500, "Server error during login")
    [] kind = "me" -> Fail(500, "Server error while fetching profile")
    [] kind = "profile" -> Fail(500, "Server error while updating profile")

\* POST /signup arrives: validation, then await User.findOne({ email }).
SignupLookup(r) ==
  /\ \E body \in SignupBodies :
       /\ Arrive(r)
       /\ LET errors == SignupErrors(variant, body)
          IN IF errors # {}
             THEN DoneAtOnce(r, "signup", body, NoToken, ValidationFailed(errors))
             ELSE IF store = "down"
             THEN DoneAtOnce(r, "signup", body, NoToken, Caught("signup", StoreErrorDetail))
             ELSE IF FindByEmail(users, NormalizeEmail(body.email)) # {}
             THEN DoneAtOnce(r, "signup", body, NoToken, DuplicateEmail(variant))
             ELSE reqs' = [reqs EXCEPT ![r] = [Arrived("signup", body, NoToken) EXCEPT !.pc = "save"]]
  /\ UNCHANGED <<variant, users, env, now, others>>

\* await user.save(): the insert, or the duplicate-key error of the unique
\* index, which the route's catch block answers.
SignupSave(r) ==
  /\ reqs[r].kind = "signup" /\ reqs[r].pc = "save"
  /\ LET doc == SignupDoc(variant, reqs[r].body)
     IN IF store = "down"
        THEN /\ Done(r, Caught("signup", StoreErrorDetail))
             /\ UNCHANGED users
        ELSE IF DuplicateKey(users, doc.email)
        THEN /\ Done(r, SignupSaveFailed)
             /\ UNCHANGED users
        ELSE /\ Cardinality(users) < MaxUsers
             /\ LET id == Cardinality(users) + 1
                     saved == StoreSave(doc, id, SaltSeq[id], now)
                IN /\ users' = users \cup {saved}
                   /\ reqs' = [reqs EXCEPT ![r].pc = "issue", ![r].doc = saved]
  /\ UNCHANGED <<variant, env, now, nreq, others>>

\* generateToken and the 201 response.
SignupRespond(r) ==
  /\ reqs[r].kind = "signup" /\ reqs[r].pc = "issue"
  /\ LET saved == reqs[r].doc
         token == generateToken(IdToString(saved.id), saved.email, getJWTSecret(env), now)
     IN Done(r, Ok(201, "User registered successfully and saved to database",
                   Projection(variant, saved), token))
  /\ UNCHANGED <<variant, users, env, now, nreq, others>>

(* -------------------------------- login -------------------------------- *)

\* loginValidation: isEmail on the email, notEmpty on the password.
LoginErrors(body) ==
  (IF IsEmail(body.email) THEN {}
   ELSE {Err("email", body.email, "Please provide a valid email")})
  \cup
  (IF body.password # "" THEN {}
   ELSE {Err("password", body.password, "Password is required")})

\* A login that answers 404 when the email has no account.
NoSuchUser404(v) == Fail(404, "User not found")

\* The 401 of a login whose email has no account.
NoSuchUser(v) ==
  Fail(401, IF v = 1 THEN "Invalid email or password"
            ELSE "User doesn't exist. Please sign up first.")

\* The 401 of a login whose password does not match.
WrongPassword(v) ==
  Fail(401, IF v = 1 THEN "Invalid email or password"
            ELSE "Invalid password. Please try again.")

\* POST /login arrives: validation, then
\* await User.findOne({ email }).select('+password').
LoginLookup(r) ==
  /\ \E body \in LoginBodies :
       /\ Arrive(r)
       /\ LET errors == LoginErrors(body)
              found == FindByEmail(users, NormalizeEmail(body.email))
          IN IF errors # {}
             THEN DoneAtOnce(r, "login", body, NoToken, ValidationFailed(errors))
             ELSE IF store = "down"
             THEN DoneAtOnce(r, "login", body, NoToken, Caught("login", StoreErrorDetail))
             ELSE IF found = {}
             THEN DoneAtOnce(r, "login", body, NoToken, NoSuchUser(variant))
             ELSE \E u \in found :
                    reqs' = [reqs EXCEPT ![r] = [Arrived("login", body, NoToken)
                                                   EXCEPT !.pc = "compare", !.doc = u]]
  /\ UNCHANGED <<variant, users, env, now, others>>

\* await user.comparePassword(password), then the token and the response.
LoginCompare(r) ==
  /\ reqs[r].kind = "login" /\ reqs[r].pc = "compare"
  /\ LET user == reqs[r].doc
     IN IF ~ComparePassword(reqs[r].body.password, user.password)
        THEN Done(r, WrongPassword(variant))
        ELSE Done(r, Ok(200, "Login successful", Projection(variant, user),
                        generateToken(IdToString(user.id), user.email, getJWTSecret(env), now)))
  /\ UNCHANGED <<variant, users, env, now, nreq, others>>

(* -------------------------- session middleware ------------------------- *)

\* The routes behind the session middleware.
Private == {"me", "profile", "logout"}

\* A router that mounts POST /logout without authMiddleware.
UsesAuthMiddlewareButLogout(kind) == kind \in {"me", "profile"}

\* router.get('/me', authMiddleware, ...), router.put('/profile',
\* authMiddleware, ...), router.post('/logout', authMiddleware, ...).
UsesAuthMiddleware(kind) == kind \in Private

\* The middleware's answer when its account lookup throws.
StorageFailure == [NoResp EXCEPT !.status = 500, !.message = "Server error", !.code = "StorageFailure"]

\* A request to a private route arrives. authMiddleware: no token, a token
\* the verifier rejects, or a token of an account the store does not hold
\* end the request with 401; otherwise the identity is attached and the
\* handler runs.
Middleware(r) ==
  /\ \E kind \in Private, tok \in Presentable :
       /\ Arrive(r)
       /\ LET verdict == Verify(tok, getJWTSecret(env), now)
          IN IF ~UsesAuthMiddleware(kind)
             THEN reqs' = [reqs EXCEPT ![r] = [Arrived(kind, <<>>, tok) EXCEPT !.pc = "handler"]]
             ELSE IF tok = NoToken
             THEN DoneAtOnce(r, kind, <<>>, tok, Unauthorized("AuthMissing"))
             ELSE IF verdict.kind # "Valid"
             THEN DoneAtOnce(r, kind, <<>>, tok, Unauthorized(verdict.kind))
             ELSE IF store = "down"
             THEN DoneAtOnce(r, kind, <<>>, tok, StorageFailure)
             ELSE IF FindById(users, CastId(verdict.accountId)) = {}
             THEN DoneAtOnce(r, kind, <<>>, tok, Unauthorized("AccountNotFound"))
             ELSE reqs' = [reqs EXCEPT ![r] = [Arrived(kind, <<>>, tok)
                                                 EXCEPT !.pc = "handler",
                                                        !.doc = [id |-> CastId(verdict.accountId)]]]
  /\ UNCHANGED <<variant, users, env, now, others>>

(* --------------------------------- /me --------------------------------- *)

\* A handler that reports a missing account as a server error.
UserNotFoundAs500 == Fail(500, "Server error while fetching profile")

\* if (!user) return res.status(404).json({ success: false, message: 'User not found' })
UserNotFound == Fail(404, "User not found")

\* await User.findById(req.user.id), then the projection.
MeHandler(r) ==
  /\ reqs[r].kind = "me" /\ reqs[r].pc = "handler"
  /\ LET found == FindById(users, reqs[r].doc.id)
     IN IF store = "down"
        THEN Done(r, Caught("me", StoreErrorDetail))
        ELSE IF found = {}
        THEN Done(r, UserNotFound)
        ELSE \E u \in found :
               Done(r, Ok(200, "", Projection(variant, WithoutPassword(u)), NoToken))
  /\ UNCHANGED <<variant, users, env, now, nreq, others>>

(* ------------------------------- /profile ------------------------------ *)

\* The validation chains of PUT /profile: every field is optional.
ProfileErrors(v, body) ==
  (IF Has(body, "firstName")
   THEN NameErrors(body, "firstName", "First name must be less than 50 characters") ELSE {})
  \cup
  (IF Has(body, "lastName")
   THEN NameErrors(body, "lastName", "Last name must be less than 50 characters") ELSE {})
  \cup (IF v = 1 THEN BusinessErrors(body) ELSE {})

\* The fields the chains of PUT /profile trim.
TrimmedFields(v) == IF v = 1 THEN {"firstName", "lastName", "businessName", "location"}
                    ELSE {"firstName", "lastName"}

\* An update that blanks the location when the body does not carry one.
UpdateDataBlankLocation(v, body) ==
  [f \in DOMAIN body \cup {"location"} |->
     IF f \notin DOMAIN body THEN ""
     ELSE IF f \in TrimmedFields(v) THEN Trim(body[f]) ELSE body[f]]

\* const updateData = req.body: the whole body, as the sanitizers left it.
UpdateData(v, body) ==
  [f \in DOMAIN body |-> IF f \in TrimmedFields(v) THEN Trim(body[f]) ELSE body[f]]

\* runValidators: the store re-validates the fields it applies.
StoreValid(update) ==
  LET applied == [f \in AllowedUpdate(update) |-> update[f]]
  IN /\ Has(applied, "firstName") => NameErrors(applied, "firstName", "") = {}
     /\ Has(applied, "lastName") => NameErrors(applied, "lastName", "") = {}
     /\ BusinessErrors(applied) = {}

\* res.json(...) of PUT /profile; the request keeps the body it carried.
ProfileDone(r, body, resp) ==
  reqs' = [reqs EXCEPT ![r].pc = "done", ![r].body = body, ![r].resp = resp]

\* The body is read (the validation chains run after authMiddleware), then
\* await User.findByIdAndUpdate(req.user.id, updateData,
\* { new: true, runValidators: true }).
ProfileHandler(r) ==
  /\ reqs[r].kind = "profile" /\ reqs[r].pc = "handler"
  /\ \E body \in ProfileBodies :
       LET errors == ProfileErrors(variant, body)
           updateData == UpdateData(variant, body)
           found == FindById(users, reqs[r].doc.id)
       IN IF errors # {}
          THEN ProfileDone(r, body, ValidationFailed(errors)) /\ UNCHANGED users
          ELSE IF store = "down"
          THEN ProfileDone(r, body, Caught("profile", StoreErrorDetail)) /\ UNCHANGED users
          ELSE IF ~StoreValid(updateData)
          THEN ProfileDone(r, body, Fail(500, "Server error while updating profile"))
               /\ UNCHANGED users
          ELSE IF found = {}
          THEN ProfileDone(r, body, UserNotFound) /\ UNCHANGED users
          ELSE \E u \in found :
                 LET updated == StoreUpdate(u, updateData)
                 IN /\ users' = (users \ {u}) \cup {updated}
                    /\ ProfileDone(r, body, Ok(200, "Profile updated successfully",
                                              Projection(variant, WithoutPassword(updated)),
                                              NoToken))
  /\ UNCHANGED <<variant, env, now, nreq, others>>

(* ------------------------------- /logout ------------------------------- *)

\* A logout that removes the account it was called for.
LogoutHandlerRemoving(r) ==
  /\ reqs[r].kind = "logout" /\ reqs[r].pc = "handler"
  /\ Done(r, Ok(200, "Logged out successfully", NoUser, NoToken))
  /\ users' = users \ FindById(users, reqs[r].doc.id)
  /\ UNCHANGED <<variant, env, now, nreq, others>>

\* The audit log line and the 200; nothing else.
LogoutHandler(r) ==
  /\ reqs[r].kind = "logout" /\ reqs[r].pc = "handler"
  /\ Done(r, Ok(200, "Logged out successfully", NoUser, NoToken))
  /\ UNCHANGED <<variant, users, env, now, nreq, others>>

(* ----------------------------- environment ----------------------------- *)

Tick ==
  /\ now < MaxTime
  /\ now' = now + 1
  /\ UNCHANGED <<variant, users, env, nreq, reqs, others>>

\* process.env.JWT_SECRET is assigned a new value while the process runs.
SetEnv ==
  /\ \E s \in ({""} \cup Secrets) \ {env} : env' = s
  /\ UNCHANGED <<variant, users, now, nreq, reqs, others>>

Next ==
  \/ \E r \in ReqIds : SignupLookup(r)
  \/ \E r \in ReqIds : SignupSave(r)
  \/ \E r \in ReqIds : SignupRespond(r)
  \/ \E r \in ReqIds : LoginLookup(r)
  \/ \E r \in ReqIds : LoginCompare(r)
  \/ \E r \in ReqIds : Middleware(r)
  \/ \E r \in ReqIds : MeHandler(r)
  \/ \E r \in ReqIds : ProfileHandler(r)
  \/ \E r \in ReqIds : LogoutHandler(r)
  \/ Tick
  \/ SetEnv

Spec == Init /\ [][Next]_vars

(* ---------------- a session on a token issued before the run ----------- *)

\* The account is removed from the database by other means (the routes
\* have no delete).
Vanish ==
  /\ \E u \in users : users' = users \ {u}
  /\ UNCHANGED <<variant, env, now, nreq, reqs, others>>

\* The seeded account and a token a login handed to its owner at time 0.
SessionInit ==
  /\ variant \in Variants
  /\ users = {StoreSave(SignupDoc(variant, SeedBody), 1, "s1", 0)}
  /\ env \in {""} \cup Secrets
  /\ now = 0
  /\ nreq = 0
  /\ reqs = [r \in ReqIds |-> Idle]
  /\ tk = [TkIdle EXCEPT !.pc = "issued",
                         !.args = [accountId |-> IdToString(1), email |-> "a@x.com"],
                         !.tok = generateToken(IdToString(1), "a@x.com", getJWTSecret(env), 0),
                         !.secret = env]
  /\ store = "up" /\ client = ClientOff /\ boot = BootOff

SessionNext ==
  \/ \E r \in ReqIds : Middleware(r)
  \/ \E r \in ReqIds : MeHandler(r)
  \/ \E r \in ReqIds : ProfileHandler(r)
  \/ \E r \in ReqIds : LogoutHandler(r)
  \/ Vanish
  \/ Tick
  \/ SetEnv

SpecSession == SessionInit /\ [][SessionNext]_vars

(* ------------------------- the store breaks ---------------------------- *)

\* The connection to the store is lost: every store call throws from now on.
StoreDown ==
  /\ store = "up"
  /\ store' = "down"
  /\ UNCHANGED <<server, tk, client, boot>>

\* The connection is back.
StoreUp ==
  /\ store = "down"
  /\ store' = "up"
  /\ UNCHANGED <<server, tk, client, boot>>

\* The seeded account, a token of its owner, and a store that is up or down.
FaultInit ==
  /\ variant \in Variants
  /\ users = {StoreSave(SignupDoc(variant, SeedBody), 1, "s1", 0)}
  /\ env = ""
  /\ now = 0
  /\ nreq = 0
  /\ reqs = [r \in ReqIds |-> Idle]
  /\ tk = [TkIdle EXCEPT !.pc = "issued",
                         !.args = [accountId |-> IdToString(1), email |-> "a@x.com"],
                         !.tok = generateToken(IdToString(1), "a@x.com", getJWTSecret(env), 0),
                         !.secret = env]
  /\ store \in {"up", "down"} /\ client = ClientOff /\ boot = BootOff

\* The continuation of request r after an await: the event loop runs it once
\* the awaited promise has settled.
Continue(r) ==
  \/ SignupSave(r)
  \/ SignupRespond(r)
  \/ LoginCompare(r)
  \/ MeHandler(r)
  \/ ProfileHandler(r)
  \/ LogoutHandler(r)

FaultNext ==
  \/ \E r \in ReqIds : SignupLookup(r)
  \/ \E r \in ReqIds : SignupSave(r)
  \/ \E r \in ReqIds : SignupRespond(r)
  \/ \E r \in ReqIds : LoginLookup(r)
  \/ \E r \in ReqIds : LoginCompare(r)
  \/ \E r \in ReqIds : Middleware(r)
  \/ \E r \in ReqIds : MeHandler(r)
  \/ \E r \in ReqIds : ProfileHandler(r)
  \/ \E r \in ReqIds : LogoutHandler(r)
  \/ StoreDown
  \/ StoreUp

\* The event loop does not stand still while a settled promise has a
\* continuation to run.
SpecFault ==
  /\ FaultInit
  /\ [][FaultNext]_vars
  /\ WF_vars(\E r \in ReqIds : Continue(r))

(* ------------------------------ the browser --------------------------- *)

\* Token strings the server hands to this browser, and the user it returns.
\* "" stands for null, for an unset header and for a missing storage item.
ClientTokens == {"T1", "T2"}
ClientUser == "ann"

\* initialState, with localStorage.getItem('token') evaluated at page load.
initialState(storage) ==
  [user |-> "", token |-> storage, isAuthenticated |-> FALSE, isLoading |-> TRUE]

\* A reducer whose LOGOUT leaves isAuthenticated as it is.
authReducerLogoutKeepsFlag(state, action) ==
  CASE action.type = "AUTH_START" -> [state EXCEPT !.isLoading = TRUE]
    [] action.type = "AUTH_SUCCESS" ->
         [state EXCEPT !.user = action.user, !.token = action.token,
                       !.isAuthenticated = TRUE, !.isLoading = FALSE]
    [] action.type = "AUTH_FAILURE" ->
         [state EXCEPT !.user = "", !.token = "", !.isAuthenticated = FALSE, !.isLoading = FALSE]
    [] action.type = "LOGOUT" ->
         [state EXCEPT !.user = "", !.token = "", !.isLoading = FALSE]
    [] action.type = "UPDATE_USER" -> [state EXCEPT !.user = action.user]
    [] action.type = "SET_LOADING" -> [state EXCEPT !.isLoading = action.loading]
    [] OTHER -> state

\* A reducer whose AUTH_FAILURE leaves isLoading as it is.
authReducerFailureKeepsLoading(state, action) ==
  CASE action.type = "AUTH_START" -> [state EXCEPT !.isLoading = TRUE]
    [] action.type = "AUTH_SUCCESS" ->
         [state EXCEPT !.user = action.user, !.token = action.token,
                       !.isAuthenticated = TRUE, !.isLoading = FALSE]
    [] action.type = "AUTH_FAILURE" ->
         [state EXCEPT !.user = "", !.token = "", !.isAuthenticated = FALSE]
    [] action.type = "LOGOUT" ->
         [state EXCEPT !.user = "", !.token = "", !.isAuthenticated = FALSE, !.isLoading = FALSE]
    [] action.type = "UPDATE_USER" -> [state EXCEPT !.user = action.user]
    [] action.type = "SET_LOADING" -> [state EXCEPT !.isLoading = action.loading]
    [] OTHER -> state

\* authReducer(state, action)
authReducer(state, action) ==
  CASE action.type = "AUTH_START" -> [state EXCEPT !.isLoading = TRUE]
    [] action.type = "AUTH_SUCCESS" ->
         [state EXCEPT !.user = action.user, !.token = action.token,
                       !.isAuthenticated = TRUE, !.isLoading = FALSE]
    [] action.type = "AUTH_FAILURE" ->
         [state EXCEPT !.user = "", !.token = "", !.isAuthenticated = FALSE, !.isLoading = FALSE]
    [] action.type = "LOGOUT" ->
         [state EXCEPT !.user = "", !.token = "", !.isAuthenticated = FALSE, !.isLoading = FALSE]
    [] action.type = "UPDATE_USER" -> [state EXCEPT !.user = action.user]
    [] action.type = "SET_LOADING" -> [state EXCEPT !.isLoading = action.loading]
    [] OTHER -> state

Action(type) == [type |-> type, user |-> "", token |-> "", loading |-> FALSE]

\* dispatch(action), and the effect on [authState.token] that follows the
\* render: it sets the axios Authorization header to the new token, or
\* deletes it.
Dispatch(c, action) ==
  LET next == authReducer(c.state, action)
  IN [c EXCEPT !.state = next,
               !.header = IF next.token # c.state.token THEN next.token ELSE c.header]

\* A call to the server that has not been answered yet; `token` is the
\* local variable checkAuth read from localStorage.
Call(kind, token) == [kind |-> kind, token |-> token]
InFlight(kind) == {c \in client.calls : c.kind = kind}

\* The error object a catch block receives. An axios error of a response
\* with an error status carries the status and the message of the body; a
\* timeout and a network failure carry no response; an Error thrown inside
\* the try block carries its message only.
NoError == [code |-> "", message |-> "", status |-> 0, body |-> ""]
AxiosStatus(status, body) ==
  [code |-> IF status >= 500 THEN "ERR_BAD_RESPONSE" ELSE "ERR_BAD_REQUEST",
   message |-> "Request failed with status code", status |-> status, body |-> body]
AxiosTimeout == [NoError EXCEPT !.code = "ECONNABORTED", !.message = "timeout of 30000ms exceeded"]
AxiosNetworkError == [NoError EXCEPT !.code = "ERR_NETWORK", !.message = "Network Error"]
Thrown(message) == [NoError EXCEPT !.message = message]

\* The answer the browser received last: to which call, and with what.
Answer(kind, ok, error) == [kind |-> kind, ok |-> ok, error |-> error]

\* The page is loaded or reloaded: calls of the old page are forgotten, the
\* provider mounts with initialState, the token effect runs, and checkAuth
\* starts. Without a stored token it only clears isLoading; with one it sets
\* the header and calls GET /auth/me.
ClientLoad ==
  /\ LET mounted == [client EXCEPT !.loaded = TRUE,
                                    !.state = initialState(client.storage),
                                    !.header = client.storage,
                                    !.calls = {},
                                    !.last = "load", !.error = "",
                                    !.answer = Answer("", FALSE, NoError)]
     IN IF client.storage = ""
        THEN client' = Dispatch(mounted, [Action("SET_LOADING") EXCEPT !.loading = FALSE])
        ELSE client' = [mounted EXCEPT !.calls = {Call("check", client.storage)}]
  /\ UNCHANGED <<server, tk, store, boot>>

\* The ways GET /auth/me fails: the token is rejected, the account is gone,
\* the server fails, the call times out, the network fails, or the body
\* says success: false.
CheckFailures ==
  {AxiosStatus(401, "Not authorized"), AxiosStatus(404, "User not found"),
   AxiosStatus(500, "Server error while fetching profile"),
   AxiosTimeout, AxiosNetworkError, Thrown("Invalid token")}

\* A catch block of checkAuth that leaves the stored token in place.
CheckFailedKeepingStorage(c) ==
  Dispatch([c EXCEPT !.header = ""], Action("AUTH_FAILURE"))

\* The catch block of checkAuth: the header is deleted, the stored token
\* removed, AUTH_FAILURE dispatched.
CheckFailed(c) ==
  Dispatch([c EXCEPT !.header = "", !.storage = ""], Action("AUTH_FAILURE"))

\* GET /auth/me of checkAuth is answered: success, or one of the failures.
ClientCheckAnswered ==
  /\ \E c \in InFlight("check") :
       LET rest == [client EXCEPT !.calls = client.calls \ {c}]
       IN \/ client' = [Dispatch(rest, [Action("AUTH_SUCCESS") EXCEPT !.user = ClientUser,
                                                                       !.token = c.token])
                          EXCEPT !.answer = Answer("check", TRUE, NoError)]
          \/ \E e \in CheckFailures :
               client' = [CheckFailed(rest) EXCEPT !.answer = Answer("check", FALSE, e)]
  /\ UNCHANGED <<server, tk, store, boot>>

\* login(credentials): AUTH_START, then POST /auth/login.
ClientLogin ==
  /\ client.loaded /\ InFlight("login") = {}
  /\ client' = [Dispatch(client, Action("AUTH_START"))
                  EXCEPT !.calls = client.calls \cup {Call("login", "")},
                         !.last = "login", !.error = ""]
  /\ UNCHANGED <<server, tk, store, boot>>

\* A login() that shows the server's message when there is one.
LoginErrorFromBody(e) ==
  IF e.code = "ECONNABORTED"
  THEN "Request timeout. Please check your internet connection and try again."
  ELSE IF e.message = "Network Error"
  THEN "Unable to connect to server. Please check your internet connection."
  ELSE IF e.body # "" THEN e.body
  ELSE IF e.status = 401 THEN "Invalid email or password"
  ELSE IF e.status = 500 THEN "Server error. Please try again later."
  ELSE "Login failed. Please try again."

\* The message of the error login() throws from its catch block.
LoginError(e) ==
  IF e.code = "ECONNABORTED"
  THEN "Request timeout. Please check your internet connection and try again."
  ELSE IF e.message = "Network Error"
  THEN "Unable to connect to server. Please check your internet connection."
  ELSE IF e.status = 401 THEN "Invalid email or password"
  ELSE IF e.status = 500 THEN "Server error. Please try again later."
  ELSE IF e.body # "" THEN e.body
  ELSE "Login failed. Please try again."

\* The ways POST /auth/login fails: 400, the 401 messages of both copies of
\* the route, 500, a timeout, a network failure, and a success response
\* without data (a TypeError inside the try block).
LoginFailures ==
  {AxiosStatus(400, "Validation failed"), AxiosStatus(500, "Server error during login"),
   AxiosTimeout, AxiosNetworkError,
   Thrown("Cannot read properties of undefined (reading 'token')")}
  \cup {AxiosStatus(401, NoSuchUser(v).message) : v \in Variants}
  \cup {AxiosStatus(401, WrongPassword(v).message) : v \in Variants}

\* What login and signup do with a token the server returned: the header and
\* the storage item are set at once, then AUTH_SUCCESS is dispatched.
Authenticated(c, t) ==
  Dispatch([c EXCEPT !.header = t, !.storage = t],
           [Action("AUTH_SUCCESS") EXCEPT !.user = ClientUser, !.token = t])

\* POST /auth/login is answered: success, or an error and AUTH_FAILURE.
ClientLoginAnswered ==
  /\ \E c \in InFlight("login") :
       LET rest == [client EXCEPT !.calls = client.calls \ {c}]
       IN \/ \E t \in ClientTokens :
               client' = [Authenticated(rest, t) EXCEPT !.answer = Answer("login", TRUE, NoError)]
          \/ \E e \in LoginFailures :
               client' = [Dispatch(rest, Action("AUTH_FAILURE"))
                            EXCEPT !.error = LoginError(e),
                                   !.answer = Answer("login", FALSE, e)]
  /\ UNCHANGED <<server, tk, store, boot>>

\* signup(credentials): AUTH_START, then POST /auth/signup.
ClientSignup ==
  /\ client.loaded /\ InFlight("signup") = {}
  /\ client' = [Dispatch(client, Action("AUTH_START"))
                  EXCEPT !.calls = client.calls \cup {Call("signup", "")},
                         !.last = "signup", !.error = ""]
  /\ UNCHANGED <<server, tk, store, boot>>

\* The message of the error signup() throws from its catch block; for a
\* 400 the body's message stands for the first entry of its errors array.
SignupError(e) ==
  IF e.code = "ECONNABORTED"
  THEN "Request timeout. Please check your internet connection and try again."
  ELSE IF e.message = "Network Error"
  THEN "Unable to connect to server. Please check your internet connection."
  ELSE IF e.status = 409 THEN "An account with this email already exists"
  ELSE IF e.status = 400
  THEN (IF e.body # "" THEN e.body ELSE "Please check your information and try again")
  ELSE IF e.status = 500 THEN "Server error. Please try again later."
  ELSE IF e.body # "" THEN e.body
  ELSE "Failed to create account. Please try again."

\* The ways POST /auth/signup fails: 400, 409, 500, a timeout, a network
\* failure, and a success response without user or token.
SignupFailures ==
  {AxiosStatus(400, "Password must be at least 6 characters long"),
   AxiosStatus(409, "User with this email already exists"),
   AxiosStatus(500, "Server error during registration"),
   AxiosTimeout, AxiosNetworkError, Thrown("Invalid response from server")}

\* POST /auth/signup is answered: success with user and token, or one of
\* the failures and AUTH_FAILURE.
ClientSignupAnswered ==
  /\ \E c \in InFlight("signup") :
       LET rest == [client EXCEPT !.calls = client.calls \ {c}]
       IN \/ \E t \in ClientTokens :
               client' = [Authenticated(rest, t) EXCEPT !.answer = Answer("signup", TRUE, NoError)]
          \/ \E e \in SignupFailures :
               client' = [Dispatch(rest, Action("AUTH_FAILURE"))
                            EXCEPT !.error = SignupError(e),
                                   !.answer = Answer("signup", FALSE, e)]
  /\ UNCHANGED <<server, tk, store, boot>>

\* updateProfile(userData): PUT /auth/profile, sent with the Authorization
\* header of the moment; no dispatch before the answer.
ClientUpdateProfile ==
  /\ client.loaded /\ InFlight("profile") = {}
  /\ client' = [client EXCEPT !.calls = client.calls \cup {Call("profile", client.header)},
                              !.last = "profile", !.error = ""]
  /\ UNCHANGED <<server, tk, store, boot>>

\* The ways PUT /auth/profile fails.
ProfileFailures ==
  {AxiosStatus(401, "Not authorized"), AxiosStatus(400, "Validation failed"),
   AxiosStatus(500, "Server error while updating profile"), AxiosTimeout}

\* The message of the error updateProfile() throws.
ProfileError(e) == IF e.body # "" THEN e.body ELSE "Profile update failed"

\* PUT /auth/profile is answered: UPDATE_USER on success, which only a call
\* sent with a token can get; an error thrown otherwise.
ClientProfileAnswered ==
  /\ \E c \in InFlight("profile") :
       LET rest == [client EXCEPT !.calls = client.calls \ {c}]
       IN \/ /\ c.token # ""
             /\ client' = [Dispatch(rest, [Action("UPDATE_USER") EXCEPT !.user = ClientUser])
                             EXCEPT !.answer = Answer("profile", TRUE, NoError)]
          \/ \E e \in ProfileFailures :
               client' = [rest EXCEPT !.error = ProfileError(e),
                                      !.answer = Answer("profile", FALSE, e)]
  /\ UNCHANGED <<server, tk, store, boot>>

\* logout(): dispatch({ type: 'LOGOUT' }), nothing else.
ClientLogout ==
  /\ client.loaded
  /\ client' = [Dispatch(client, Action("LOGOUT")) EXCEPT !.last = "logout", !.error = ""]
  /\ UNCHANGED <<server, tk, store, boot>>

ClientInit ==
  /\ variant = 1 /\ users = {} /\ env = "" /\ now = 0 /\ nreq = 0
  /\ reqs = [r \in ReqIds |-> Idle]
  /\ tk = TkIdle /\ store = "up" /\ boot = BootOff
  /\ client \in {[ClientOff EXCEPT !.storage = t] : t \in {""} \cup ClientTokens}

ClientNext ==
  \/ ClientLoad
  \/ ClientCheckAnswered
  \/ ClientLogin
  \/ ClientLoginAnswered
  \/ ClientSignup
  \/ ClientSignupAnswered
  \/ ClientUpdateProfile
  \/ ClientProfileAnswered
  \/ ClientLogout

SpecClient == ClientInit /\ [][ClientNext]_vars

\* Every call settles, each on its own: the axios instance has a timeout of
\* 30 seconds.
SpecClientLive ==
  /\ ClientInit
  /\ [][ClientNext]_vars
  /\ WF_vars(ClientCheckAnswered)
  /\ WF_vars(ClientLoginAnswered)
  /\ WF_vars(ClientSignupAnswered)
  /\ WF_vars(ClientProfileAnswered)

(* ------------------- the token issuer and verifier alone --------------- *)

\* Token strings a caller can hand to verify without the issuer's help.
TokenStrings ==
  {Garbage}
  \cup {JwtSign([userId |-> IdToString(1), email |-> "a@x.com"], s, x, iss, aud, 0) :
          s \in {"your-secret-key", "k1", "evil"}, x \in 0..(MaxTime + 1),
          iss \in {"artisan-ai", "other-app"}, aud \in {"artisan-ai-users", "other-users"}}

TkInit ==
  /\ variant = 1 /\ users = {} /\ env = "" /\ now = 0 /\ nreq = 0
  /\ reqs = [r \in ReqIds |-> Idle]
  /\ tk \in {[TkIdle EXCEPT !.secret = s] : s \in {""} \cup Secrets}
  /\ store = "up" /\ client = ClientOff /\ boot = BootOff

\* issue(accountId, email)
TkIssue ==
  /\ UNCHANGED <<server, store, client, boot>>
  /\ \E id \in 1..MaxUsers, email \in {"a@x.com", "b@x.com"} :
    tk' = [tk EXCEPT !.pc = "issued",
                     !.args = [accountId |-> IdToString(id), email |-> email],
                     !.tok = generateToken(IdToString(id), email, getJWTSecret(tk.secret), tk.t),
                     !.fresh = TRUE,
                     !.verdict = [kind |-> ""]]

\* A caller presents a token string of its own making.
TkPresent ==
  /\ UNCHANGED <<server, store, client, boot>>
  /\ \E tok \in TokenStrings :
    tk' = [tk EXCEPT !.pc = "issued", !.tok = tok, !.fresh = FALSE, !.verdict = [kind |-> ""]]

\* Time passes before the token is verified.
TkTick ==
  /\ UNCHANGED <<server, store, client, boot>>
  /\ tk.pc = "issued" /\ tk.t < MaxTime
  /\ tk' = [tk EXCEPT !.t = tk.t + 1, !.fresh = FALSE]

\* The secret changes before the token is verified.
TkSetEnv ==
  /\ UNCHANGED <<server, store, client, boot>>
  /\ tk.pc = "issued"
  /\ \E s \in ({""} \cup Secrets) \ {tk.secret} : tk' = [tk EXCEPT !.secret = s, !.fresh = FALSE]

\* verify(tokenString)
TkVerify ==
  /\ UNCHANGED <<server, store, client, boot>>
  /\ tk.pc = "issued"
  /\ tk' = [tk EXCEPT !.pc = "verified",
                      !.verdict = Verify(tk.tok, getJWTSecret(tk.secret), tk.t)]

TkNext ==
  \/ TkIssue
  \/ TkPresent
  \/ TkTick
  \/ TkSetEnv
  \/ TkVerify

SpecToken == TkInit /\ [][TkNext]_vars

(* --------------------------- server start-up --------------------------- *)

\* What JWT_EXPIRES_IN can be set to, in the environment the process is
\* launched with and in the .env file: "" is not set.
Durations == {"", "1d", "30d"}

\* jsonwebtoken's timespan of an expiresIn string, in days.
Timespan(s) == CASE s = "1d" -> 1
                 [] s = "7d" -> 7
                 [] s = "30d" -> 30

\* const JWT_EXPIRES_IN = process.env.JWT_EXPIRES_IN || '7d', evaluated when
\* routes/auth is imported.
ReadExpiresIn(envValue) == IF envValue = "" THEN "7d" ELSE envValue

\* dotenv.config(): a variable of the .env file is set unless the process
\* environment has it already.
DotenvConfig(envValue, fileValue) == IF envValue = "" THEN fileValue ELSE envValue

\* What NODE_ENV can be set to, in the launch environment and in .env.
NodeEnvs == {"", "development", "production"}

\* if (process.env.NODE_ENV !== 'production') router.get('/debug-users', ...),
\* evaluated when routes/auth is imported.
RegistersDebugUsers(nodeEnv) == nodeEnv # "production"

\* setTimeout(connectDB, 5000): the delay of a retry, in seconds.
RetryDelay == 5

\* The process is launched; index.ts has run none of its imports yet. The
\* database is reachable or not.
BootInit ==
  /\ variant \in Variants /\ users = {} /\ env = "" /\ now = 0 /\ nreq = 0
  /\ reqs = [r \in ReqIds |-> Idle]
  /\ tk = TkIdle /\ store = "up" /\ client = ClientOff
  /\ \E p \in Durations, f \in Durations, pn \in NodeEnvs, fn \in NodeEnvs,
        d \in {"up", "down"} :
       boot = [BootOff EXCEPT !.pc = "launched", !.procEnv = p, !.file = f, !.env = p,
                              !.procNodeEnv = pn, !.fileNodeEnv = fn, !.nodeEnv = pn,
                              !.db = d]

\* import authRoutes from './routes/auth': the module's constants are set
\* and its routes registered.
BootImportRoutes ==
  /\ boot.pc = "launched"
  /\ boot' = [boot EXCEPT !.pc = "imported",
                          !.expiresIn = ReadExpiresIn(boot.env),
                          !.debugUsers = RegistersDebugUsers(boot.nodeEnv)]
  /\ UNCHANGED <<server, tk, store, client>>

\* dotenv.config(), the first statement after the imports.
BootDotenv ==
  /\ boot.pc = "imported"
  /\ boot' = [boot EXCEPT !.pc = "configured",
                          !.env = DotenvConfig(boot.env, boot.file),
                          !.nodeEnv = DotenvConfig(boot.nodeEnv, boot.fileNodeEnv)]
  /\ UNCHANGED <<server, tk, store, client>>

\* startServer() calls connectDB(), which awaits mongoose.connect.
BootStartServer ==
  /\ boot.pc = "configured"
  /\ boot' = [boot EXCEPT !.pc = "starting", !.attempts = 1]
  /\ UNCHANGED <<server, tk, store, client>>

\* mongoose.connect resolves: connectDB returns.
ConnectSucceeds ==
  /\ boot.attempts > 0 /\ boot.db = "up"
  /\ boot' = [boot EXCEPT !.attempts = @ - 1, !.connected = TRUE, !.resolved = TRUE]
  /\ UNCHANGED <<server, tk, store, client>>

\* A catch block that schedules nothing.
ScheduleNoRetry(b) == b

\* The catch block of connectDB: setTimeout(connectDB, 5000).
ScheduleRetry(b) == [b EXCEPT !.pending = @ + 1, !.timer = RetryDelay]

\* mongoose.connect rejects: the catch block logs, schedules the retry, and
\* connectDB returns normally.
ConnectFails ==
  /\ boot.attempts > 0 /\ boot.db = "down"
  /\ boot' = ScheduleRetry([boot EXCEPT !.attempts = @ - 1, !.resolved = TRUE])
  /\ UNCHANGED <<server, tk, store, client>>

\* A second passes while a retry is scheduled.
TimerTick ==
  /\ boot.pending > 0 /\ boot.timer > 0
  /\ boot' = [boot EXCEPT !.timer = @ - 1]
  /\ UNCHANGED <<server, tk, store, client>>

\* The timer runs out: connectDB is called again.
RetryFires ==
  /\ boot.pending > 0 /\ boot.timer = 0
  /\ boot' = [boot EXCEPT !.pending = @ - 1, !.attempts = @ + 1]
  /\ UNCHANGED <<server, tk, store, client>>

\* The database becomes reachable.
DbUp ==
  /\ boot.db = "down"
  /\ boot' = [boot EXCEPT !.db = "up"]
  /\ UNCHANGED <<server, tk, store, client>>

\* The database becomes unreachable.
DbDown ==
  /\ boot.db = "up"
  /\ boot' = [boot EXCEPT !.db = "down"]
  /\ UNCHANGED <<server, tk, store, client>>

\* await connectDB() has returned: app.listen may run.
ListenReady(b) == b.resolved

\* app.listen(PORT): the server accepts requests.
BootListen ==
  /\ boot.pc = "starting" /\ ListenReady(boot)
  /\ boot' = [boot EXCEPT !.pc = "listening"]
  /\ UNCHANGED <<server, tk, store, client>>

\* A signup or login issues a token: generateToken with the constant the
\* import left.
BootIssue ==
  /\ boot.pc = "listening"
  /\ \E id \in 1..MaxUsers :
       boot' = [boot EXCEPT !.tok =
                  JwtSign([userId |-> IdToString(id), email |-> "a@x.com"],
                          getJWTSecret(env), Timespan(boot.expiresIn),
                          "artisan-ai", "artisan-ai-users", now)]
  /\ UNCHANGED <<server, tk, store, client>>

\* A day passes.
BootTick ==
  /\ now < MaxTime
  /\ now' = now + 1
  /\ UNCHANGED <<variant, users, env, nreq, reqs, tk, store, client, boot>>

BootNext ==
  \/ BootImportRoutes
  \/ BootDotenv
  \/ BootStartServer
  \/ ConnectSucceeds
  \/ ConnectFails
  \/ TimerTick
  \/ RetryFires
  \/ DbUp
  \/ DbDown
  \/ BootListen
  \/ BootIssue
  \/ BootTick

SpecBoot == BootInit /\ [][BootNext]_vars

\* The steps of the server process itself.
BootStep ==
  \/ BootImportRoutes
  \/ BootDotenv
  \/ BootStartServer
  \/ ConnectSucceeds
  \/ ConnectFails
  \/ TimerTick
  \/ RetryFires

\* The process runs: module evaluation goes on, a connection attempt ends
\* one way or the other, time passes and a due timer fires.
SpecConnect == BootInit /\ [][BootNext]_vars /\ WF_vars(BootStep)

(* ------------------------------ properties ----------------------------- *)

\* The requests of one kind that were answered.
Answered(kind) == {r \in ReqIds : reqs[r].kind = kind /\ reqs[r].pc = "done"}

\* Signups with acceptable input for one address.
ValidSignupsFor(email) ==
  {r \in Answered("signup") : /\ SignupErrors(variant, reqs[r].body) = {}
                              /\ NormalizeEmail(reqs[r].body.email) = email}

\* C1: of two signup requests with valid input and the same normalized
\* email, exactly one is answered 201 and the other 409; neither is answered
\* 500, also when both passed the lookup before either saved.
C1_OneCreatedOtherDuplicate ==
  \A r1, r2 \in Answered("signup") :
    (/\ r1 # r2
     /\ r1 \in ValidSignupsFor(NormalizeEmail(reqs[r1].body.email))
     /\ r2 \in ValidSignupsFor(NormalizeEmail(reqs[r1].body.email)))
    => /\ {reqs[r1].resp.status, reqs[r2].resp.status} \subseteq {201, 409}
       /\ ~(reqs[r1].resp.status = 201 /\ reqs[r2].resp.status = 201)

\* C2: no two accounts of the store have the same normalized email, whatever
\* the interleaving of signups and profile updates.
C2_UniqueEmail ==
  \A u1, u2 \in users :
    /\ u1.email = NormalizeEmail(u1.email)
    /\ u1.email = u2.email => u1 = u2

\* Two signups for one address raced past the lookup and the store refused
\* the second insert: one account holds the address.
C2_RaceRefused ==
  \E r1, r2 \in Answered("signup") :
    /\ r1 # r2
    /\ reqs[r1].resp.status = 201 /\ reqs[r2].resp = SignupSaveFailed
    /\ NormalizeEmail(reqs[r1].body.email) = NormalizeEmail(reqs[r2].body.email)
    /\ Cardinality(FindByEmail(users, NormalizeEmail(reqs[r1].body.email))) = 1

\* C3: every failed login is answered with status 401 and one and the same
\* message, whether the email has no account or the password is wrong.
C3_FailedLoginsAlike ==
  \A r1, r2 \in Answered("login") :
    (reqs[r1].resp.status = 401 /\ reqs[r2].resp.status = 401)
    => reqs[r1].resp.message = reqs[r2].resp.message

\* A PUT /profile step of request r: the handler answers.
ProfileStep(r) ==
  /\ reqs[r].kind = "profile" /\ reqs[r].pc = "handler"
  /\ reqs'[r].pc = "done"

\* C4: a PUT /profile, whatever its payload, leaves the target account's
\* identifier, email, password hash and creation timestamp as they were.
C4_ProtectedFieldsKept ==
  [][\A r \in ReqIds :
       ProfileStep(r) =>
         \A u \in FindById(users, reqs[r].doc.id) :
           \E w \in users' :
             /\ w.id = u.id
             /\ w.email = u.email
             /\ w.password = u.password
             /\ w.createdAt = u.createdAt
             /\ FindById(users', u.id) = {w}]_vars

\* A PUT /profile whose payload carried a protected field was answered 200.
C4_ProtectedFieldSent ==
  \E r \in Answered("profile") :
    /\ reqs[r].resp.status = 200
    /\ DOMAIN reqs[r].body \cap ProtectedFields # {}

\* C5: a successful PUT /profile changes only fields its payload carries:
\* the target keeps every other field, and every other account is untouched.
C5_OnlyPayloadFieldsChange ==
  [][\A r \in ReqIds :
       (ProfileStep(r) /\ reqs'[r].resp.status = 200) =>
         /\ \A u \in users : u.id # reqs[r].doc.id => u \in users'
         /\ Cardinality(users') = Cardinality(users)
         /\ \A u \in FindById(users, reqs[r].doc.id) :
              \E w \in FindById(users', u.id) :
                \A f \in DOMAIN u \ DOMAIN reqs'[r].body : w[f] = u[f]]_vars

\* A PUT /profile that carried a mutable field was answered 200 while the
\* store held a second account.
C5_UpdatedAmongOthers ==
  \E r \in Answered("profile") :
    /\ reqs[r].resp.status = 200
    /\ DOMAIN reqs[r].body \cap MutableFields # {}
    /\ Cardinality(users) = 2

\* The strings a client reads in a response body: the message, the `user`
\* object, the entries of `errors`, and the claims of the token.
StringFields == {"email", "password", "firstName", "lastName", "businessName",
                 "businessType", "phone", "location"}
BodyStrings(resp) ==
  {resp.message}
  \cup {resp.user[f] : f \in DOMAIN resp.user \cap StringFields}
  \cup {e.value : e \in resp.errors}
  \cup {e.msg : e \in resp.errors}
  \cup (IF resp.token.kind = "jwt"
        THEN {resp.token.userId, resp.token.email, resp.token.iss, resp.token.aud}
        ELSE {})

\* The password hashes of the accounts, and the passwords they were made of.
Credentials ==
  {u.password : u \in users}
  \cup {p \in Passwords : \E u \in users : ComparePassword(p, u.password)}

\* C6: no response body, of any route and on any path, holds an account's
\* password or password hash.
C6_NoCredentialInResponse ==
  LET secrets == Credentials
  IN \A r \in ReqIds :
       reqs[r].pc = "done" => \A x \in BodyStrings(reqs[r].resp) : x \notin secrets

\* A login was answered 200: its handler held the document with the hash.
C6_HashInHand ==
  \E r \in Answered("login") :
    /\ reqs[r].resp.status = 200
    /\ reqs[r].doc.password \in Credentials
    /\ reqs[r].resp.user.id = reqs[r].doc.id

\* The tokens the responses carried.
Issued == {reqs[r].resp.token : r \in {q \in ReqIds : reqs[q].resp.token.kind = "jwt"}}

\* C7: all tokens of one process lifetime are signed with one and the same
\* secret, also when JWT_SECRET changes after startup.
C7_OneSecretPerLifetime ==
  \A t1, t2 \in Issued : t1.sig = t2.sig

\* A POST /login step of request r: the route answers.
LoginStep(r) ==
  /\ reqs[r].pc \in {"idle", "compare"}
  /\ reqs'[r].kind = "login" /\ reqs'[r].pc = "done"

\* C8: a login with well-formed input is answered 200 with a token exactly
\* when an account with the normalized email exists and the password
\* verifies against its hash, and 401 without a token otherwise; the token
\* carries that account's identifier and email.
C8_LoginOutcome ==
  [][\A r \in ReqIds :
       (LoginStep(r) /\ LoginErrors(reqs'[r].body) = {}) =>
         LET body == reqs'[r].body
             resp == reqs'[r].resp
             match == {u \in users : /\ u.email = NormalizeEmail(body.email)
                                     /\ ComparePassword(body.password, u.password)}
         IN IF match # {}
            THEN /\ resp.status = 200
                 /\ resp.token.kind = "jwt"
                 /\ \E u \in match : /\ resp.token.userId = IdToString(u.id)
                                     /\ resp.token.email = u.email
            ELSE /\ resp.status = 401
                 /\ resp.token = NoToken]_vars

\* A login was answered 200 with a token, for an address typed in capitals.
C8_LoggedIn ==
  \E r \in Answered("login") :
    /\ reqs[r].resp.status = 200
    /\ reqs[r].resp.token.kind = "jwt"
    /\ reqs[r].body.email # NormalizeEmail(reqs[r].body.email)

\* C9: a token issue(accountId, email) produced, verified at once, yields
\* exactly that accountId and email.
C9_IssueThenVerify ==
  (tk.pc = "verified" /\ tk.fresh)
  => tk.verdict = [kind |-> "Valid", accountId |-> tk.args.accountId, email |-> tk.args.email]

\* A token issued for the second address was verified at once.
C9_VerifiedAtOnce ==
  tk.pc = "verified" /\ tk.fresh /\ tk.args.email = "b@x.com"

\* C10: verify accepts no token that is not valid now, and names the cause:
\* TokenMalformed for a string that does not parse, TokenExpired for a token
\* past its expiry, TokenInvalid for a token signed with another secret or
\* carrying a wrong issuer or audience (either kind when a token is both
\* expired and wrongly signed or tagged).
C10_RejectsByCause ==
  tk.pc = "verified" =>
    LET tok == tk.tok
        kind == tk.verdict.kind
        parsable == tok.kind = "jwt"
        expired == parsable /\ tk.t >= tok.exp
        forged == parsable /\ (\/ tok.sig # getJWTSecret(tk.secret)
                               \/ tok.iss # "artisan-ai"
                               \/ tok.aud # "artisan-ai-users")
    IN /\ ~parsable => kind = "TokenMalformed"
       /\ (expired /\ ~forged) => kind = "TokenExpired"
       /\ (forged /\ ~expired) => kind = "TokenInvalid"
       /\ (forged /\ expired) => kind \in {"TokenExpired", "TokenInvalid"}
       /\ kind = "Valid" => (parsable /\ ~expired /\ ~forged)

\* A token carrying the right signature and tags was verified past its
\* expiry.
C10_ExpiredRejected ==
  /\ tk.pc = "verified" /\ tk.tok.kind = "jwt"
  /\ tk.tok.sig = getJWTSecret(tk.secret) /\ tk.t >= tk.tok.exp
  /\ tk.verdict.kind = "TokenExpired"

\* The session middleware lets request r through to its handler.
Admitted(r) ==
  /\ reqs[r].pc = "idle"
  /\ reqs'[r].kind \in Private /\ reqs'[r].pc = "handler"

\* The handler of a private route answers request r (the middleware's own
\* answers carry its internal code).
HandlerAnswers(r) ==
  /\ reqs[r].pc # "done"
  /\ reqs'[r].kind \in Private /\ reqs'[r].pc = "done" /\ reqs'[r].resp.code = ""

\* C11: the handlers of /me, /profile and /logout run only after the session
\* middleware verified the request's token and attached the identity of an
\* account the store holds; a request without a token is answered 401 and
\* never reaches its handler.
C11_HandlersBehindMiddleware ==
  [][\A r \in ReqIds :
       /\ Admitted(r) =>
            /\ Verify(reqs'[r].token, getJWTSecret(env), now).kind = "Valid"
            /\ reqs'[r].doc.id = CastId(reqs'[r].token.userId)
            /\ FindById(users, reqs'[r].doc.id) # {}
       /\ HandlerAnswers(r) => reqs[r].pc = "handler"
       /\ (reqs[r].pc = "idle" /\ reqs'[r].kind \in Private /\ reqs'[r].token = NoToken)
            => (reqs'[r].pc = "done" /\ reqs'[r].resp.status = 401)]_vars

\* One request without a token was turned away with 401 and another, with a
\* token, was answered by its handler.
C11_OneRejectedOneServed ==
  \E r1, r2 \in ReqIds :
    /\ reqs[r1].kind \in Private /\ reqs[r1].token = NoToken /\ reqs[r1].resp.status = 401
    /\ reqs[r2].kind \in Private /\ reqs[r2].token.kind = "jwt"
    /\ reqs[r2].pc = "done" /\ reqs[r2].resp.status = 200

\* C12: after the client's logout the client holds the session token
\* nowhere: authState.token is null, the Authorization header is unset and
\* local storage has no token, so a reload finds nothing to present.
C12_LogoutDropsToken ==
  client.last = "logout" =>
    /\ client.state.token = ""
    /\ client.header = ""
    /\ client.storage = ""

\* POST /logout answers request r.
LogoutStep(r) ==
  /\ reqs[r].kind = "logout" /\ reqs[r].pc = "handler"
  /\ reqs'[r].pc = "done"

\* C13: POST /logout answers 200 and changes nothing on the server: the
\* store, the secret and every other request are as before, and the token it
\* was called with is accepted afterwards exactly as it was before.
C13_LogoutChangesNothing ==
  [][\A r \in ReqIds :
       LogoutStep(r) =>
         /\ reqs'[r].resp.status = 200
         /\ users' = users /\ env' = env /\ now' = now /\ variant' = variant
         /\ \A q \in ReqIds \ {r} : reqs'[q] = reqs[q]
         /\ Verify(reqs[r].token, getJWTSecret(env'), now')
              = Verify(reqs[r].token, getJWTSecret(env), now)
         /\ FindById(users', reqs[r].doc.id) = FindById(users, reqs[r].doc.id)]_vars

\* After a logout was answered, GET /me with the same token was answered 200.
C13_TokenServedAfterLogout ==
  \E r1, r2 \in ReqIds :
    /\ r1 < r2
    /\ reqs[r1].kind = "logout" /\ reqs[r1].pc = "done" /\ reqs[r1].resp.status = 200
    /\ reqs[r2].kind = "me" /\ reqs[r2].pc = "done" /\ reqs[r2].resp.status = 200
    /\ reqs[r2].token = reqs[r1].token

\* GET /me or PUT /profile is answered (by the middleware or the handler)
\* for a request whose token is valid and whose account the store lacks.
AnsweredWithoutAccount(r) ==
  /\ reqs[r].pc # "done" /\ reqs'[r].pc = "done"
  /\ reqs'[r].kind \in {"me", "profile"}
  /\ Verify(reqs'[r].token, getJWTSecret(env), now).kind = "Valid"
  /\ FindById(users, CastId(reqs'[r].token.userId)) = {}

\* The payload of a PUT /profile passes the route's and the store's checks.
AcceptablePayload(r) ==
  reqs'[r].kind = "profile" =>
    /\ ProfileErrors(variant, reqs'[r].body) = {}
    /\ StoreValid(UpdateData(variant, reqs'[r].body))

SignupArrives(r) ==
  /\ reqs[r].pc = "idle"
  /\ reqs'[r].kind = "signup" /\ reqs'[r].pc # "idle"

\* C14: a signup that reaches the lookup while an account with its
\* normalized email exists is answered 409 without a token, creates no
\* account and leaves the existing accounts as they were.
C14_ExistingEmailIs409 ==
  [][\A r \in ReqIds :
       (/\ SignupArrives(r)
        /\ SignupErrors(variant, reqs'[r].body) = {}
        /\ FindByEmail(users, NormalizeEmail(reqs'[r].body.email)) # {}) =>
         /\ reqs'[r].pc = "done"
         /\ reqs'[r].resp.status = 409
         /\ reqs'[r].resp.token = NoToken
         /\ reqs'[r].resp.user = NoUser
         /\ users' = users]_vars

\* A valid signup for an address typed in capitals was answered 409 while
\* the account of that address is in the store.
C14_DuplicateRefused ==
  \E r \in ReqIds :
    /\ reqs[r].kind = "signup" /\ reqs[r].pc = "done"
    /\ reqs[r].resp.status = 409
    /\ reqs[r].body.email # NormalizeEmail(reqs[r].body.email)
    /\ FindByEmail(users, NormalizeEmail(reqs[r].body.email)) # {}

\* C15: a signup that breaks any input rule (email, password, names, or one
\* of the optional business fields) is answered 400 "Validation failed" with
\* one entry per offending field, before any lookup or write: no account is
\* created and no token issued.
C15_InvalidSignupIs400 ==
  [][\A r \in ReqIds :
       LET violations == SignupErrors(1, reqs'[r].body)
       IN (SignupArrives(r) /\ violations # {}) =>
            /\ reqs'[r].pc = "done"
            /\ reqs'[r].resp.status = 400
            /\ reqs'[r].resp.message = "Validation failed"
            /\ {e.path : e \in reqs'[r].resp.errors} = {e.path : e \in violations}
            /\ reqs'[r].resp.token = NoToken
            /\ users' = users]_vars

\* C16: PUT /profile checks every field the payload carries against the
\* constraints signup puts on that field; a payload with any violation is
\* answered 400 with field-level errors and no account changes.
C16_InvalidProfileIs400 ==
  [][\A r \in ReqIds :
       LET violations == ProfileErrors(1, reqs'[r].body)
       IN (ProfileStep(r) /\ violations # {}) =>
            /\ reqs'[r].resp.status = 400
            /\ {e.path : e \in reqs'[r].resp.errors} = {e.path : e \in violations}
            /\ users' = users]_vars

\* C17: signup goes validate, look up, store, issue, respond. The save is
\* tried only for input that passed validation and a lookup that found
\* nothing; the token is made and the 201 sent only in the step after a save
\* that put the account in the store, and the token names that account; a
\* save that fails is answered 500 without a token and adds no account.
C17_TokenOnlyAfterSave ==
  [][\A r \in ReqIds :
       LET before == reqs[r]
           after == reqs'[r]
       IN (after.kind = "signup" /\ after # before) =>
            /\ after.pc = "save" =>
                 /\ before.pc = "idle"
                 /\ SignupErrors(variant, after.body) = {}
                 /\ FindByEmail(users, NormalizeEmail(after.body.email)) = {}
            /\ after.pc = "issue" =>
                 /\ before.pc = "save"
                 /\ after.doc \in users' \ users
                 /\ after.resp = NoResp
            /\ (after.pc = "done" /\ before.pc = "save") =>
                 /\ after.resp.status = 500
                 /\ after.resp.token = NoToken
                 /\ users' = users
            /\ (after.resp.status = 201 \/ after.resp.token # NoToken) =>
                 /\ before.pc = "issue" /\ after.pc = "done"
                 /\ after.resp.status = 201
                 /\ after.resp.token.kind = "jwt"
                 /\ after.resp.token.userId = IdToString(before.doc.id)
                 /\ FindById(users, before.doc.id) # {}]_vars

\* One signup was answered 201 with a token after its save, and another,
\* whose save failed, was answered 500 without one.
C17_SavedAndFailed ==
  \E r1, r2 \in ReqIds :
    /\ reqs[r1].kind = "signup" /\ reqs[r1].pc = "done"
    /\ reqs[r1].resp.status = 201 /\ reqs[r1].resp.token.kind = "jwt"
    /\ reqs[r2].kind = "signup" /\ reqs[r2].pc = "done"
    /\ reqs[r2].resp = SignupSaveFailed

\* The step in which request r is answered.
AnswerStep(r) == reqs[r].pc # "done" /\ reqs'[r].pc = "done"

\* The steps of request r that call the store: every step but the ones
\* after the last store call of login and signup, and the logout handler.
CallsStore(r) ==
  /\ reqs[r].pc \notin {"compare", "issue", "done"}
  /\ reqs'[r].kind # "logout" \/ reqs[r].pc = "idle"

\* C19: every request to signup, login, /me, /profile and /logout gets one
\* response and only one, whether the store answers, finds nothing or
\* throws: an answer is never replaced, and again and again no request is
\* left in flight, so that each one that arrived has been answered; a step that would call the store while it throws ends the
\* request with a validation or token rejection made before the call, or
\* with 500, a fixed message that is not the error's, and no other detail,
\* and the store is as it was.
C19_OneResponseWhateverTheStore ==
  /\ [][\A r \in ReqIds :
          /\ reqs[r].pc = "done" => reqs'[r] = reqs[r]
          /\ AnswerStep(r) => reqs'[r].resp.status # 0
          /\ (reqs'[r] # reqs[r] /\ CallsStore(r) /\ store = "down") =>
               LET resp == reqs'[r].resp
               IN /\ reqs'[r].pc = "done"
                  /\ resp.status \in {400, 401, 500}
                  /\ resp.status = 500 =>
                       /\ \/ resp = StorageFailure
                          \/ /\ reqs'[r].kind \in {"signup", "login", "me", "profile"}
                             /\ resp = Caught(reqs'[r].kind, StoreErrorDetail)
                       /\ resp.message # StoreErrorDetail
                       /\ resp.errors = {}
                       /\ resp.user = NoUser /\ resp.token = NoToken
                  /\ users' = users]_vars
  /\ []<>(\A r \in ReqIds : reqs[r].pc \in {"idle", "done"})

\* With the store down, a signup whose lookup had succeeded and a profile
\* update whose token had been accepted were both answered 500.
C19_AnsweredWhileDown ==
  /\ store = "down"
  /\ \E r1, r2 \in ReqIds :
       /\ reqs[r1].kind = "signup" /\ reqs[r1].pc = "done"
       /\ reqs[r1].resp = Caught("signup", StoreErrorDetail)
       /\ FindByEmail(users, NormalizeEmail(reqs[r1].body.email)) = {}
       /\ reqs[r2].kind = "profile" /\ reqs[r2].pc = "done"
       /\ reqs[r2].resp = Caught("profile", StoreErrorDetail)

\* The duration the application is configured with: the process
\* environment's value, else the .env file's, else none.
Configured == IF boot.procEnv # "" THEN boot.procEnv ELSE boot.file

\* C20: every issued token expires the configured JWT_EXPIRES_IN after it
\* was issued, whether the value comes from the process environment or from
\* the .env file, and 7 days after when none is configured.
C20_ExpiryIsConfigured ==
  boot.tok.kind = "jwt" =>
    boot.tok.exp - boot.tok.iat = IF Configured = "" THEN 7 ELSE Timespan(Configured)

\* C21: the server listens only after the database connection has been
\* established; it never accepts requests while the first attempt has
\* failed and a retry is pending.
C21_ListensOnlyConnected ==
  boot.pc = "listening" => boot.connected

\* The NODE_ENV the application is configured with: the process
\* environment's value, else the .env file's.
ConfiguredNodeEnv == IF boot.procNodeEnv # "" THEN boot.procNodeEnv ELSE boot.fileNodeEnv

\* C22: /debug-users is never registered when the application is configured
\* for production, whether NODE_ENV comes from the process environment or
\* from the .env file.
C22_NoDebugUsersInProduction ==
  ConfiguredNodeEnv = "production" => ~boot.debugUsers

\* C23: connectDB never rejects. A failed attempt returns to its caller and
\* schedules exactly one retry, due 5 seconds later; at most one retry is
\* pending at any time, and never beside an attempt in progress; if the
\* database becomes and stays reachable, a connection is established.
C23_RetryUntilConnected ==
  /\ [](boot.pending + boot.attempts <= 1)
  /\ [][LET failed == /\ boot.attempts > 0
                       /\ boot'.attempts < boot.attempts
                       /\ ~boot'.connected
             called == boot'.attempts > boot.attempts
         IN /\ failed => (/\ boot'.resolved
                          /\ boot'.pc = boot.pc
                          /\ boot'.pending = boot.pending + 1
                          /\ boot'.timer = RetryDelay)
            /\ called => (\/ boot.pc = "configured"
                          \/ boot.pending = 1 /\ boot'.pending = 0 /\ boot.timer = 0)]_vars
  /\ (<>[](boot.db = "up")) => <>boot.connected

\* After a failed attempt the retry is due, the database is reachable by
\* now and no connection has been established yet.
C23_RetryDue ==
  /\ boot.pending = 1 /\ boot.timer = 0
  /\ boot.db = "up" /\ ~boot.connected

\* C24: in every state of the browser, whatever the interleaving of login,
\* signup, checkAuth, updateProfile and logout, isAuthenticated implies that
\* user and token are both non-null.
C24_AuthenticatedHasUserAndToken ==
  client.state.isAuthenticated =>
    /\ client.state.user # ""
    /\ client.state.token # ""

\* The browser is authenticated and the answer it got last was a profile
\* update, made while a logout and a login went by.
C24_UpdatedWhileAuthenticated ==
  /\ client.state.isAuthenticated
  /\ client.answer = Answer("profile", TRUE, NoError)
  /\ client.last = "login"

\* C25: user is non-null only while isAuthenticated is true, also when the
\* answer to an updateProfile call arrives after logout.
C25_UserOnlyWhileAuthenticated ==
  client.state.user # "" => client.state.isAuthenticated

\* The calls that settle the session: login, signup and checkAuth.
AuthCalls == {c \in client.calls : c.kind \in {"login", "signup", "check"}}

\* C26: whenever no login, signup or checkAuth call is in flight, the token
\* of authState equals the token in local storage, both absent or both the
\* same.
C26_TokenIsStoredToken ==
  (client.loaded /\ AuthCalls = {}) => client.state.token = client.storage

\* The step in which the failure of checkAuth's GET /auth/me is handled.
CheckFailureStep ==
  /\ \E c \in client.calls \ client'.calls : c.kind = "check"
  /\ client'.answer.kind = "check" /\ ~client'.answer.ok

\* C27: when the /auth/me call of checkAuth fails, for whatever reason, then
\* afterwards local storage holds no token, the Authorization header is
\* unset, and the state is unauthenticated with user and token null and
\* isLoading false.
C27_CheckFailureCleansUp ==
  [][CheckFailureStep =>
       /\ client'.storage = ""
       /\ client'.header = ""
       /\ client'.state = [user |-> "", token |-> "",
                           isAuthenticated |-> FALSE, isLoading |-> FALSE]]_vars

\* checkAuth failed on a network error after a login had stored its token:
\* nothing of the session is left.
C27_FailedAfterLogin ==
  /\ client.answer = Answer("check", FALSE, AxiosNetworkError)
  /\ client.last = "login" /\ InFlight("login") = {}
  /\ client.storage = "" /\ client.header = ""

\* The step in which a login, signup or checkAuth call ends.
AuthCallEnds ==
  /\ client'.answer.kind \in {"login", "signup", "check"}
  /\ \E c \in client.calls \ client'.calls : c.kind = client'.answer.kind

\* C28: every login, signup and checkAuth call leaves isLoading false, on
\* every path: each such call that ends leaves it false, a checkAuth without
\* a stored token clears it at once, isLoading is true only while such a
\* call is in flight, and again and again it is false.
C28_LoadingEnds ==
  /\ [][LET loadedWithoutToken == /\ client'.last = "load" /\ client.last # "load"
                                   /\ client.storage = ""
         IN (AuthCallEnds \/ loadedWithoutToken) => ~client'.state.isLoading]_vars
  /\ []((client.loaded /\ client.state.isLoading) => AuthCalls # {})
  /\ []<>(client.loaded => ~client.state.isLoading)

\* A signup was answered with a success that carries no user or token, and
\* isLoading is false.
C28_MalformedSuccessHandled ==
  /\ client.answer = Answer("signup", FALSE, Thrown("Invalid response from server"))
  /\ ~client.state.isLoading
  /\ client.calls = {}

\* C29: the error login() throws for a 401 is 'Invalid email or password',
\* whatever message the body of the response carries.
C29_Login401FixedMessage ==
  [][(/\ \E c \in client.calls \ client'.calls : c.kind = "login"
      /\ client'.answer.kind = "login"
      /\ client'.answer.error.status = 401)
       => client'.error = "Invalid email or password"]_vars

\* A login was answered 401 with a body that says the account does not
\* exist, and the error thrown is the fixed message.
C29_NoSuchUserHidden ==
  /\ client.answer.kind = "login" /\ client.answer.error.status = 401
  /\ client.answer.error.body = NoSuchUser(2).message
  /\ client.error = "Invalid email or password"

====
